---- MODULE Spec2Model ----
(***************************************************************************)
(* Model of app1.py: a Streamlit chat script over a two-record policy      *)
(* store.  Python strings are sequences of one-character strings, so that   *)
(* str.lower(), str.title(), str.replace() and the substring operator `in`  *)
(* are computed character by character.                                     *)
(***************************************************************************)
EXTENDS Integers, Sequences, FiniteSets, TLC

\* Largest number of vocabulary fragments concatenated into one query string.
MaxFrags == 3
\* Largest number of user inputs handled in one session.
MaxTurns == 3

-----------------------------------------------------------------------------
\* Python string primitives

UpperLetters ==
  <<"A","B","C","D","E","F","G","H","I","J","K","L","M",
    "N","O","P","Q","R","S","T","U","V","W","X","Y","Z">>
LowerLetters ==
  <<"a","b","c","d","e","f","g","h","i","j","k","l","m",
    "n","o","p","q","r","s","t","u","v","w","x","y","z">>
UpperSet == {UpperLetters[i] : i \in 1..Len(UpperLetters)}
LowerSet == {LowerLetters[i] : i \in 1..Len(LowerLetters)}
ToLower == [c \in UpperSet |-> LowerLetters[CHOOSE i \in 1..Len(UpperLetters) : UpperLetters[i] = c]]
ToUpper == [c \in LowerSet |-> UpperLetters[CHOOSE i \in 1..Len(LowerLetters) : LowerLetters[i] = c]]

lower_char(c) == IF c \in UpperSet THEN ToLower[c] ELSE c
upper_char(c) == IF c \in LowerSet THEN ToUpper[c] ELSE c
is_cased(c) == c \in UpperSet \cup LowerSet

\* str.lower()
lower(s) == [i \in 1..Len(s) |-> lower_char(s[i])]

\* str.title(): a cased character is upper-cased when it follows an uncased
\* character (or starts the string) and lower-cased otherwise.
title(s) ==
  [i \in 1..Len(s) |->
     IF i = 1 \/ ~is_cased(s[i-1]) THEN upper_char(s[i]) ELSE lower_char(s[i])]

\* str.replace(old, new) for one-character old and new.
replace(s, old, new) == [i \in 1..Len(s) |-> IF s[i] = old THEN new ELSE s[i]]

\* Python's `sub in s`: sub occurs in s as a contiguous substring.
contains(sub, s) ==
  \E i \in 0..(Len(s) - Len(sub)) : SubSeq(s, i + 1, i + Len(sub)) = sub

\* "sep".join(list)
RECURSIVE join(_, _)
join(sep, list) ==
  IF list = <<>> THEN <<>>
  ELSE IF Len(list) = 1 THEN list[1]
  ELSE list[1] \o sep \o join(sep, Tail(list))

-----------------------------------------------------------------------------
\* MOCK_POLICY_DATA: string literals of the store

\* 'policy_1001'
policy_1001 ==
  <<"p","o","l","i","c","y","_","1","0","0","1">>
\* 'policy_1002'
policy_1002 ==
  <<"p","o","l","i","c","y","_","1","0","0","2">>
\* 'Jane Doe'
Jane_Doe ==
  <<"J","a","n","e"," ","D","o","e">>
\* 'John Smith'
John_Smith ==
  <<"J","o","h","n"," ","S","m","i","t","h">>
\* 'Auto Insurance'
Auto_Insurance ==
  <<"A","u","t","o"," ","I","n","s","u","r","a","n","c","e">>
\* 'Home Insurance'
Home_Insurance ==
  <<"H","o","m","e"," ","I","n","s","u","r","a","n","c","e">>
\* 'collision'
k_collision ==
  <<"c","o","l","l","i","s","i","o","n">>
\* 'Up to $50,000'
v_collision ==
  <<"U","p"," ","t","o"," ","$","5","0",",","0","0","0">>
\* 'comprehensive'
k_comprehensive ==
  <<"c","o","m","p","r","e","h","e","n","s","i","v","e">>
\* 'Up to $25,000'
v_comprehensive ==
  <<"U","p"," ","t","o"," ","$","2","5",",","0","0","0">>
\* 'roadside_assistance'
k_roadside_assistance ==
  <<"r","o","a","d","s","i","d","e","_","a","s","s","i","s","t","a","n","c","e">>
\* 'Included'
v_roadside_assistance ==
  <<"I","n","c","l","u","d","e","d">>
\* 'fire'
k_fire ==
  <<"f","i","r","e">>
\* 'Full replacement value'
v_fire ==
  <<"F","u","l","l"," ","r","e","p","l","a","c","e","m","e","n","t"," ","v","a","l","u","e">>
\* 'theft'
k_theft ==
  <<"t","h","e","f","t">>
\* 'Up to $10,000'
v_theft ==
  <<"U","p"," ","t","o"," ","$","1","0",",","0","0","0">>
\* 'natural_disaster'
k_natural_disaster ==
  <<"n","a","t","u","r","a","l","_","d","i","s","a","s","t","e","r">>
\* 'Not included (separate policy)'
v_natural_disaster ==
  <<"N","o","t"," ","i","n","c","l","u","d","e","d"," ","(","s","e","p","a","r","a","t","e"," ",
    "p","o","l","i","c","y",")">>
\* '$120/month'
premium_1001 ==
  <<"$","1","2","0","/","m","o","n","t","h">>
\* '$500'
deductible_1001 ==
  <<"$","5","0","0">>
\* 'Off-road driving and commercial use.'
exclusions_1001 ==
  <<"O","f","f","-","r","o","a","d"," ","d","r","i","v","i","n","g"," ","a","n","d"," ","c","o",
    "m","m","e","r","c","i","a","l"," ","u","s","e",".">>
\* '$85/month'
premium_1002 ==
  <<"$","8","5","/","m","o","n","t","h">>
\* '$1,000'
deductible_1002 ==
  <<"$","1",",","0","0","0">>
\* 'Damage from floods and earthquakes.'
exclusions_1002 ==
  <<"D","a","m","a","g","e"," ","f","r","o","m"," ","f","l","o","o","d","s"," ","a","n","d"," ",
    "e","a","r","t","h","q","u","a","k","e","s",".">>

\* A dict is the sequence of its (key, value) items in insertion order.
record_1001 ==
  [customer_name |-> Jane_Doe,
   policy_type   |-> Auto_Insurance,
   coverage      |-> << <<k_collision, v_collision>>,
                        <<k_comprehensive, v_comprehensive>>,
                        <<k_roadside_assistance, v_roadside_assistance>> >>,
   premium       |-> premium_1001,
   deductible    |-> deductible_1001,
   exclusions    |-> exclusions_1001]
record_1002 ==
  [customer_name |-> John_Smith,
   policy_type   |-> Home_Insurance,
   coverage      |-> << <<k_fire, v_fire>>,
                        <<k_theft, v_theft>>,
                        <<k_natural_disaster, v_natural_disaster>> >>,
   premium       |-> premium_1002,
   deductible    |-> deductible_1002,
   exclusions    |-> exclusions_1002]

MOCK_POLICY_DATA_literal ==
  << <<policy_1001, record_1001>>, <<policy_1002, record_1002>> >>

-----------------------------------------------------------------------------
\* String literals of generate_response

\* "I'm sorry, I couldn't find any relevant policy information for that query. Please check the policy number or customer name."
APOLOGY ==
  <<"I","'","m"," ","s","o","r","r","y",","," ","I"," ","c","o","u","l","d","n","'","t"," ","f",
    "i","n","d"," ","a","n","y"," ","r","e","l","e","v","a","n","t"," ","p","o","l","i","c","y",
    " ","i","n","f","o","r","m","a","t","i","o","n"," ","f","o","r"," ","t","h","a","t"," ","q",
    "u","e","r","y","."," ","P","l","e","a","s","e"," ","c","h","e","c","k"," ","t","h","e"," ",
    "p","o","l","i","c","y"," ","n","u","m","b","e","r"," ","o","r"," ","c","u","s","t","o","m",
    "e","r"," ","n","a","m","e",".">>
\* 'coverage'
kw_coverage ==
  <<"c","o","v","e","r","a","g","e">>
\* 'premium'
kw_premium ==
  <<"p","r","e","m","i","u","m">>
\* 'deductible'
kw_deductible ==
  <<"d","e","d","u","c","t","i","b","l","e">>
\* 'Hello, the policy details for '
t_cov_head ==
  <<"H","e","l","l","o",","," ","t","h","e"," ","p","o","l","i","c","y"," ","d","e","t","a","i",
    "l","s"," ","f","o","r"," ">>
\* ' (Policy ID: '
t_policy_id ==
  <<" ","(","P","o","l","i","c","y"," ","I","D",":"," ">>
\* ') indicate the following coverage:<newline><newline>'
t_cov_tail ==
  <<")"," ","i","n","d","i","c","a","t","e"," ","t","h","e"," ","f","o","l","l","o","w","i","n",
    "g"," ","c","o","v","e","r","a","g","e",":","\n","\n">>
\* 'The monthly premium for '
t_prem_head ==
  <<"T","h","e"," ","m","o","n","t","h","l","y"," ","p","r","e","m","i","u","m"," ","f","o","r",
    " ">>
\* "'s policy (Policy ID: "
t_s_policy ==
  <<"'","s"," ","p","o","l","i","c","y"," ","(","P","o","l","i","c","y"," ","I","D",":"," ">>
\* ') is '
t_is ==
  <<")"," ","i","s"," ">>
\* '.'
t_dot ==
  <<".">>
\* 'The deductible for '
t_ded_head ==
  <<"T","h","e"," ","d","e","d","u","c","t","i","b","l","e"," ","f","o","r"," ">>
\* 'Based on the information for '
t_fb_head ==
  <<"B","a","s","e","d"," ","o","n"," ","t","h","e"," ","i","n","f","o","r","m","a","t","i","o",
    "n"," ","f","o","r"," ">>
\* "), I can confirm that the policy type is '"
t_fb_mid ==
  <<")",","," ","I"," ","c","a","n"," ","c","o","n","f","i","r","m"," ","t","h","a","t"," ","t",
    "h","e"," ","p","o","l","i","c","y"," ","t","y","p","e"," ","i","s"," ","'">>
\* "'. How can I assist further?"
t_fb_tail ==
  <<"'","."," ","H","o","w"," ","c","a","n"," ","I"," ","a","s","s","i","s","t"," ","f","u","r",
    "t","h","e","r","?">>
\* '- '
t_dash ==
  <<"-"," ">>
\* ': '
t_colon ==
  <<":"," ">>
\* '<newline>'
t_nl ==
  <<"\n">>

-----------------------------------------------------------------------------
\* Inputs

\* 'POLICY_1001'
f_ID_UPPER ==
  <<"P","O","L","I","C","Y","_","1","0","0","1">>
\* 'john smith'
f_john_lower ==
  <<"j","o","h","n"," ","s","m","i","t","h">>
\* 'JANE DOE'
f_JANE_UPPER ==
  <<"J","A","N","E"," ","D","O","E">>
\* 'Premium'
f_PREMIUM ==
  <<"P","r","e","m","i","u","m">>
\* 'Jane'
f_Jane ==
  <<"J","a","n","e">>
\* ' and '
f_and ==
  <<" ","a","n","d"," ">>

\* Vocabulary the query strings are built from: both identifiers, an
\* identifier in the wrong case, names in several cases, a partial name, the
\* three keywords (one capitalised) and filler text.
Fragments ==
  {policy_1001, policy_1002, f_ID_UPPER, Jane_Doe, f_JANE_UPPER, f_john_lower,
   f_Jane, kw_coverage, f_PREMIUM, kw_deductible, f_and}

RECURSIVE concat(_)
concat(fs) == IF fs = <<>> THEN <<>> ELSE fs[1] \o concat(Tail(fs))

\* Every concatenation of at most MaxFrags fragments (the empty string included).
Queries ==
  {concat(fs) : fs \in UNION {[1..n -> Fragments] : n \in 0..MaxFrags}}

\* 'What is the coverage for Jane Doe?'
q_placeholder ==
  <<"W","h","a","t"," ","i","s"," ","t","h","e"," ","c","o","v","e","r","a","g","e"," ","f","o",
    "r"," ","J","a","n","e"," ","D","o","e","?">>
\* 'what premium covers coverage'
q_spec_priority ==
  <<"w","h","a","t"," ","p","r","e","m","i","u","m"," ","c","o","v","e","r","s"," ","c","o","v",
    "e","r","a","g","e">>
\* 'nonexistent'
q_nonexistent ==
  <<"n","o","n","e","x","i","s","t","e","n","t">>
\* 'premium for policy_1002'
q_premium_1002 ==
  <<"p","r","e","m","i","u","m"," ","f","o","r"," ","p","o","l","i","c","y","_","1","0","0",
    "2">>

\* Inputs typed into the chat box during a session.
SessionInputs ==
  {q_placeholder, q_spec_priority, q_nonexistent, q_premium_1002,
   policy_1001, f_ID_UPPER, f_john_lower \o f_and \o kw_deductible,
   policy_1002 \o f_and \o Jane_Doe, f_Jane, kw_coverage}

-----------------------------------------------------------------------------
VARIABLES
  MOCK_POLICY_DATA,  \* the module-level dict, as its item sequence
  session_keys,      \* keys present in st.session_state
  messages,          \* st.session_state.messages
  pc,                \* position of the script run (or of the function calls)
  prompt,            \* the script's `prompt` / the functions' `query`
  context,           \* result of retrieve_policy_info
  response           \* result of generate_response

vars == <<MOCK_POLICY_DATA, session_keys, messages, pc, prompt, context, response>>

-----------------------------------------------------------------------------
\* retrieve_policy_info

\* Variant: the identifier is matched without regard to case, as the name is.
RECURSIVE retrieve_loop_nocase_id(_, _, _)
retrieve_loop_nocase_id(items, query, retrieved_info) ==
  IF items = <<>> THEN retrieved_info
  ELSE LET policy_id      == items[1][1]
           policy_details == items[1][2]
           hit == \/ contains(lower(policy_id), lower(query))
                  \/ contains(lower(policy_details.customer_name), lower(query))
       IN  retrieve_loop_nocase_id(Tail(items), query,
                         IF hit THEN Append(retrieved_info, policy_details)
                                ELSE retrieved_info)

\* Variant: a match is inserted at the front of retrieved_info.
RECURSIVE retrieve_loop_insert_front(_, _, _)
retrieve_loop_insert_front(items, query, retrieved_info) ==
  IF items = <<>> THEN retrieved_info
  ELSE LET policy_id      == items[1][1]
           policy_details == items[1][2]
           hit == \/ contains(policy_id, query)
                  \/ contains(lower(policy_details.customer_name), lower(query))
       IN  retrieve_loop_insert_front(Tail(items), query,
                         IF hit THEN <<policy_details>> \o retrieved_info
                                ELSE retrieved_info)

\* Variant: a match is appended as a copy that also holds its identifier.
RECURSIVE retrieve_loop_with_id(_, _, _)
retrieve_loop_with_id(items, query, retrieved_info) ==
  IF items = <<>> THEN retrieved_info
  ELSE LET policy_id      == items[1][1]
           policy_details == items[1][2]
           hit == \/ contains(policy_id, query)
                  \/ contains(lower(policy_details.customer_name), lower(query))
           copy == [policy_id     |-> policy_id,
                    customer_name |-> policy_details.customer_name,
                    policy_type   |-> policy_details.policy_type,
                    coverage      |-> policy_details.coverage,
                    premium       |-> policy_details.premium,
                    deductible    |-> policy_details.deductible,
                    exclusions    |-> policy_details.exclusions]
       IN  retrieve_loop_with_id(Tail(items), query,
                         IF hit THEN Append(retrieved_info, copy)
                                ELSE retrieved_info)

\* The loop over MOCK_POLICY_DATA.items(): items still to visit, the query,
\* and retrieved_info so far.
RECURSIVE retrieve_loop(_, _, _)
retrieve_loop(items, query, retrieved_info) ==
  IF items = <<>> THEN retrieved_info
  ELSE LET policy_id      == items[1][1]
           policy_details == items[1][2]
           hit == \/ contains(policy_id, query)
                  \/ contains(lower(policy_details.customer_name), lower(query))
       IN  retrieve_loop(Tail(items), query,
                         IF hit THEN Append(retrieved_info, policy_details)
                                ELSE retrieved_info)

retrieve_policy_info(query) == retrieve_loop(MOCK_POLICY_DATA, query, <<>>)

-----------------------------------------------------------------------------
\* generate_response

\* A call either returns a string or raises.
Return(s) == [exc |-> "none", value |-> s]
Raise(e)  == [exc |-> e, value |-> <<>>]

\* Variant: the comprehension without its filter, [k for k, v in ...].
keys_of_unfiltered(items, policy) == [i \in 1..Len(items) |-> items[i][1]]

\* [k for k, v in MOCK_POLICY_DATA.items() if v == policy]
RECURSIVE keys_of(_, _)
keys_of(items, policy) ==
  IF items = <<>> THEN <<>>
  ELSE (IF items[1][2] = policy THEN <<items[1][1]>> ELSE <<>>)
       \o keys_of(Tail(items), policy)

\* [f"- {key.replace('_', ' ').title()}: {value}" for key, value in policy["coverage"].items()]
coverage_list(policy) ==
  [i \in 1..Len(policy.coverage) |->
     t_dash \o title(replace(policy.coverage[i][1], "_", " "))
            \o t_colon \o policy.coverage[i][2]]

coverage_response(customer_name, policy_id, policy) ==
  t_cov_head \o customer_name \o t_policy_id \o policy_id \o t_cov_tail
             \o join(t_nl, coverage_list(policy))

premium_response(customer_name, policy_id, policy) ==
  t_prem_head \o customer_name \o t_s_policy \o policy_id \o t_is
              \o policy.premium \o t_dot

deductible_response(customer_name, policy_id, policy) ==
  t_ded_head \o customer_name \o t_s_policy \o policy_id \o t_is
             \o policy.deductible \o t_dot

fallback_response(customer_name, policy_id, policy) ==
  t_fb_head \o customer_name \o t_policy_id \o policy_id \o t_fb_mid
            \o policy.policy_type \o t_fb_tail

\* Variant: "premium" is tested before "coverage".
generate_response_premium_first(query, ctx) ==
  IF ctx = <<>> THEN Return(APOLOGY)
  ELSE LET policy        == ctx[1]
           customer_name == policy.customer_name
           ids           == keys_of(MOCK_POLICY_DATA, policy)
       IN  IF ids = <<>> THEN Raise("IndexError")
           ELSE LET policy_id == ids[1]
                IN  IF contains(kw_premium, lower(query))
                      THEN Return(premium_response(customer_name, policy_id, policy))
                    ELSE IF contains(kw_coverage, lower(query))
                      THEN Return(coverage_response(customer_name, policy_id, policy))
                    ELSE IF contains(kw_deductible, lower(query))
                      THEN Return(deductible_response(customer_name, policy_id, policy))
                    ELSE Return(fallback_response(customer_name, policy_id, policy))

\* Variant: the `if not context` guard is missing, so context[0] raises.
generate_response_no_guard(query, ctx) ==
  IF ctx = <<>> THEN Raise("IndexError")
  ELSE LET policy        == ctx[1]
           customer_name == policy.customer_name
           ids           == keys_of(MOCK_POLICY_DATA, policy)
       IN  IF ids = <<>> THEN Raise("IndexError")
           ELSE LET policy_id == ids[1]
                IN  IF contains(kw_coverage, lower(query))
                      THEN Return(coverage_response(customer_name, policy_id, policy))
                    ELSE IF contains(kw_premium, lower(query))
                      THEN Return(premium_response(customer_name, policy_id, policy))
                    ELSE IF contains(kw_deductible, lower(query))
                      THEN Return(deductible_response(customer_name, policy_id, policy))
                    ELSE Return(fallback_response(customer_name, policy_id, policy))

\* Variant: the last match, context[-1], is described.
generate_response_last_match(query, ctx) ==
  IF ctx = <<>> THEN Return(APOLOGY)
  ELSE LET policy        == ctx[Len(ctx)]
           customer_name == policy.customer_name
           ids           == keys_of(MOCK_POLICY_DATA, policy)
       IN  IF ids = <<>> THEN Raise("IndexError")
           ELSE LET policy_id == ids[1]
                IN  IF contains(kw_coverage, lower(query))
                      THEN Return(coverage_response(customer_name, policy_id, policy))
                    ELSE IF contains(kw_premium, lower(query))
                      THEN Return(premium_response(customer_name, policy_id, policy))
                    ELSE IF contains(kw_deductible, lower(query))
                      THEN Return(deductible_response(customer_name, policy_id, policy))
                    ELSE Return(fallback_response(customer_name, policy_id, policy))

generate_response(query, ctx) ==
  IF ctx = <<>> THEN Return(APOLOGY)
  ELSE LET policy        == ctx[1]
           customer_name == policy.customer_name
           ids           == keys_of(MOCK_POLICY_DATA, policy)
       IN  IF ids = <<>> THEN Raise("IndexError")
           ELSE LET policy_id == ids[1]
                IN  IF contains(kw_coverage, lower(query))
                      THEN Return(coverage_response(customer_name, policy_id, policy))
                    ELSE IF contains(kw_premium, lower(query))
                      THEN Return(premium_response(customer_name, policy_id, policy))
                    ELSE IF contains(kw_deductible, lower(query))
                      THEN Return(deductible_response(customer_name, policy_id, policy))
                    ELSE Return(fallback_response(customer_name, policy_id, policy))

-----------------------------------------------------------------------------
\* The script.  Streamlit runs it top to bottom once per event of the
\* session; st.session_state survives between runs, everything else is
\* rebuilt by the run.

user_message(content)      == [role |-> "user", content |-> content]
assistant_message(content) == [role |-> "assistant", content |-> content]

\* Process start: no run of the script has happened in this session.
Init ==
  /\ MOCK_POLICY_DATA = MOCK_POLICY_DATA_literal
  /\ session_keys = {}
  /\ messages = <<>>
  /\ pc = "waiting"
  /\ prompt = <<>>
  /\ context = <<>>
  /\ response = <<>>

\* Variant: the session state is initialised without the `not in` test.
BeginRun_reset ==
  /\ pc \in {"waiting", "error"}
  /\ MOCK_POLICY_DATA' = MOCK_POLICY_DATA_literal
  /\ session_keys' = session_keys \cup {"messages"}
  /\ messages' = <<>>
  /\ pc' = "replay"
  /\ UNCHANGED <<prompt, context, response>>

\* A run starts: the module-level dict is built, the session state is
\* initialised when it has no "messages" key, and the history is replayed.
BeginRun ==
  /\ pc \in {"waiting", "error"}
  /\ MOCK_POLICY_DATA' = MOCK_POLICY_DATA_literal
  /\ session_keys' = session_keys \cup {"messages"}
  /\ messages' = IF "messages" \in session_keys THEN messages ELSE <<>>
  /\ pc' = "replay"
  /\ UNCHANGED <<prompt, context, response>>

\* Variant: the user message is not appended when the input arrives.
ChatInput_late(p) ==
  /\ pc = "replay"
  /\ IF p = <<>>
       THEN /\ pc' = "waiting"
            /\ UNCHANGED <<messages, prompt>>
       ELSE /\ Len(messages) < 2 * MaxTurns
            /\ prompt' = p
            /\ messages' = messages
            /\ pc' = "user_appended"
  /\ UNCHANGED <<MOCK_POLICY_DATA, session_keys, context, response>>

\* `if prompt := st.chat_input(...)`: p is what the chat box returns, with
\* <<>> for None (nothing submitted), which is falsy like the empty string.
ChatInput(p) ==
  /\ pc = "replay"
  /\ IF p = <<>>
       THEN /\ pc' = "waiting"
            /\ UNCHANGED <<messages, prompt>>
       ELSE /\ Len(messages) < 2 * MaxTurns
            /\ prompt' = p
            /\ messages' = Append(messages, user_message(p))
            /\ pc' = "user_appended"
  /\ UNCHANGED <<MOCK_POLICY_DATA, session_keys, context, response>>

\* Variant: retrieval pops the first item of the dict as it reads it.
Retrieve_pop ==
  /\ pc \in {"user_appended", "call"}
  /\ context' = retrieve_policy_info(prompt)
  /\ MOCK_POLICY_DATA' = Tail(MOCK_POLICY_DATA)
  /\ pc' = IF pc = "call" THEN "called_retrieve" ELSE "retrieved"
  /\ UNCHANGED <<session_keys, messages, prompt, response>>

\* context = retrieve_policy_info(prompt)
Retrieve ==
  /\ pc \in {"user_appended", "call"}
  /\ context' = retrieve_policy_info(prompt)
  /\ pc' = IF pc = "call" THEN "called_retrieve" ELSE "retrieved"
  /\ UNCHANGED <<MOCK_POLICY_DATA, session_keys, messages, prompt, response>>

\* response = generate_response(prompt, context); an exception ends the run.
Generate ==
  /\ pc \in {"retrieved", "called_retrieve"}
  /\ LET r == generate_response(prompt, context)
     IN  IF r.exc = "none"
           THEN /\ response' = r.value
                /\ pc' = IF pc = "retrieved" THEN "generated" ELSE "called_generate"
           ELSE /\ response' = response
                /\ pc' = "error"
  /\ UNCHANGED <<MOCK_POLICY_DATA, session_keys, messages, prompt, context>>

\* st.session_state.messages.append({"role": "assistant", ...}); the run ends
\* and its local variables are gone.
AppendAssistant ==
  /\ pc = "generated"
  /\ messages' = Append(messages, assistant_message(response))
  /\ pc' = "waiting"
  /\ prompt' = <<>>
  /\ context' = <<>>
  /\ response' = <<>>
  /\ UNCHANGED <<MOCK_POLICY_DATA, session_keys>>

Next ==
  \/ BeginRun
  \/ \E p \in SessionInputs \cup {<<>>} : ChatInput(p)
  \/ Retrieve
  \/ Generate
  \/ AppendAssistant

Spec == Init /\ [][Next]_vars

\* The two functions called on one query, as lines 110-112 call them, for
\* every query string of the vocabulary (the empty string included).
TurnInit ==
  /\ MOCK_POLICY_DATA = MOCK_POLICY_DATA_literal
  /\ session_keys = {}
  /\ messages = <<>>
  /\ pc = "call"
  /\ prompt \in Queries
  /\ context = <<>>
  /\ response = <<>>

TurnNext ==
  \/ Retrieve
  \/ Generate

TurnSpec == TurnInit /\ [][TurnNext]_vars

-----------------------------------------------------------------------------
\* Vocabulary of the properties

\* sub occurs in s as a contiguous substring, stated position by position.
Occurs(sub, s) ==
  \E i \in 1..(Len(s) + 1) :
     /\ i + Len(sub) - 1 <= Len(s)
     /\ \A k \in 1..Len(sub) : s[i + k - 1] = sub[k]

StartsWith(s, pre) ==
  /\ Len(pre) <= Len(s)
  /\ \A k \in 1..Len(pre) : s[k] = pre[k]

IsPrefix(s, t) ==
  /\ Len(s) <= Len(t)
  /\ \A k \in 1..Len(s) : s[k] = t[k]

\* The store as loaded at process start.
Store == MOCK_POLICY_DATA_literal

\* The item of the store at position i matches query q.
Matches(i, q) ==
  \/ Occurs(Store[i][1], q)
  \/ Occurs(lower(Store[i][2].customer_name), lower(q))

\* Positions of the store at which a record equal to rec is stored.
PositionsOf(rec) == {i \in 1..Len(Store) : Store[i][2] = rec}

\* Retrieval carrying (identifier, record) pairs: the matching items of the
\* store, in store order.
RECURSIVE matching_items(_, _)
matching_items(i, q) ==
  IF i > Len(Store) THEN <<>>
  ELSE (IF Matches(i, q) THEN <<Store[i]>> ELSE <<>>) \o matching_items(i + 1, q)

\* Which of the four templates a response was made from, by its opening words.
TemplateOf(r) ==
  IF StartsWith(r, t_cov_head) THEN "coverage"
  ELSE IF StartsWith(r, t_prem_head) THEN "premium"
  ELSE IF StartsWith(r, t_ded_head) THEN "deductible"
  ELSE IF StartsWith(r, t_fb_head) THEN "fallback"
  ELSE "other"

\* The first keyword of the priority order that occurs in q lowercased.
FirstKeyword(q) ==
  IF Occurs(kw_coverage, lower(q)) THEN "coverage"
  ELSE IF Occurs(kw_premium, lower(q)) THEN "premium"
  ELSE IF Occurs(kw_deductible, lower(q)) THEN "deductible"
  ELSE "fallback"

Retrieved == pc \in {"called_retrieve", "called_generate"}
Responded == pc = "called_generate"

-----------------------------------------------------------------------------
\* C1: retrieve_policy_info(q) returns exactly the records whose identifier
\* occurs in q (case-sensitively) or whose lowercased customer name occurs
\* in q lowercased, each at most once and in store insertion order; a query
\* that matches none, the empty string included, yields the empty sequence.
C1_RetrieveContract ==
  Retrieved =>
    /\ \A i \in 1..Len(Store) :
         Matches(i, prompt) <=> \E j \in 1..Len(context) : context[j] = Store[i][2]
    /\ \A j \in 1..Len(context) : PositionsOf(context[j]) # {}
    /\ \A j, k \in 1..Len(context) :
         j < k => \A a \in PositionsOf(context[j]), b \in PositionsOf(context[k]) : a < b
    /\ (\A i \in 1..Len(Store) : ~Matches(i, prompt)) => context = <<>>
    /\ prompt = <<>> => context = <<>>

\* Both records retrieved, the first of them by name only, in another case.
C1_Witness ==
  /\ pc = "called_retrieve"
  /\ Len(context) = 2
  /\ ~Occurs(policy_1001, prompt)
  /\ ~Occurs(Jane_Doe, prompt)

\* C2: for a non-empty match sequence the template is picked by the first
\* keyword, in the order coverage, premium, deductible, that occurs in the
\* lowercased query, and is the fallback template when none occurs.
C2_TemplatePriority ==
  (Responded /\ context # <<>>) => TemplateOf(response) = FirstKeyword(prompt)

\* A query with both "coverage" and "premium", premium first, on a match.
C2_Witness ==
  /\ Responded
  /\ context # <<>>
  /\ \E a \in Fragments : prompt = f_PREMIUM \o a \o kw_coverage
  /\ TemplateOf(response) = "coverage"

\* C3: generate_response(q, []) is the fixed apology text whatever q is, and
\* the response of a full turn is the apology text exactly when
\* retrieve_policy_info(q) is empty.
C3_Apology ==
  /\ generate_response(prompt, <<>>) = Return(APOLOGY)
  /\ Responded => (response = APOLOGY <=> retrieve_policy_info(prompt) = <<>>)

\* An apology for a query that contains a keyword.
C3_Witness ==
  /\ Responded
  /\ response = APOLOGY
  /\ Occurs(kw_coverage, lower(prompt))
  /\ Occurs(kw_premium, lower(prompt))

\* C4: retrieve_policy_info followed by generate_response never raises and
\* yields a string, the element [0] of the reverse lookup included.
C4_NoException ==
  /\ pc # "error"
  /\ pc = "called_retrieve" => generate_response(prompt, context).exc = "none"
  /\ Responded => /\ response = generate_response(prompt, context).value
                  /\ Len(response) > 0

\* The reverse lookup ran, on the second record of the store.
C4_Witness ==
  /\ Responded
  /\ context = <<record_1002>>

\* C5: when several records match, the response describes only matches[0],
\* the earliest matching record of the store, wherever the identifiers and
\* names stand in the query, and nothing of the other records.
C5_FirstMatchOnly ==
  (Responded /\ Len(context) > 1) =>
    LET first == CHOOSE i \in 1..Len(Store) :
                   Matches(i, prompt) /\ \A j \in 1..(i - 1) : ~Matches(j, prompt)
    IN  /\ context[1] = Store[first][2]
        /\ response = generate_response(prompt, <<Store[first][2]>>).value
        /\ Occurs(Store[first][1], response)
        /\ Occurs(Store[first][2].customer_name, response)
        /\ \A i \in 1..Len(Store) :
             i # first =>
               /\ ~Occurs(Store[i][1], response)
               /\ ~Occurs(Store[i][2].customer_name, response)
               /\ ~Occurs(Store[i][2].premium, response)
               /\ ~Occurs(Store[i][2].policy_type, response)

\* policy_1002 named before Jane Doe: the answer is about policy_1001.
C5_Witness ==
  /\ Responded
  /\ prompt = policy_1002 \o f_and \o Jane_Doe
  /\ Occurs(policy_1001, response)

\* C6: a query containing "policy_1001" retrieves a non-empty sequence whose
\* first element is the record stored under policy_1001.
C6_Policy1001First ==
  (Retrieved /\ Occurs(policy_1001, prompt)) =>
    /\ context # <<>>
    /\ \E i \in 1..Len(Store) : Store[i][1] = policy_1001 /\ context[1] = Store[i][2]

\* policy_1001 after policy_1002 in the query.
C6_Witness ==
  /\ pc = "called_retrieve"
  /\ prompt = policy_1002 \o f_and \o policy_1001

\* C10: the identifier the reverse lookup finds for matches[0] is the key
\* under which matches[0] was retrieved, and the response is the one made
\* from the first (identifier, record) pair of a retrieval carrying pairs.
C10_ReverseLookup ==
  (Responded /\ context # <<>>) =>
    LET pairs == matching_items(1, prompt)
        id    == pairs[1][1]
        rec   == pairs[1][2]
        kw    == FirstKeyword(prompt)
    IN  /\ context = [j \in 1..Len(pairs) |-> pairs[j][2]]
        /\ keys_of(MOCK_POLICY_DATA, context[1])[1] = id
        /\ response =
             IF kw = "coverage" THEN coverage_response(rec.customer_name, id, rec)
             ELSE IF kw = "premium" THEN premium_response(rec.customer_name, id, rec)
             ELSE IF kw = "deductible" THEN deductible_response(rec.customer_name, id, rec)
             ELSE fallback_response(rec.customer_name, id, rec)
        /\ Occurs(t_policy_id \o id, response)

\* The second record of the store retrieved alone, by its identifier.
C10_Witness ==
  /\ Responded
  /\ prompt = f_PREMIUM \o f_and \o policy_1002
  /\ Occurs(policy_1002, response)
  /\ Occurs(premium_1002, response)

-----------------------------------------------------------------------------
\* Properties of the session

\* The turns of m up to position n are (user, assistant) pairs in which the
\* assistant's content is the response to the user's content.
PairedUpTo(m, n) ==
  \A i \in 1..n :
     IF i % 2 = 1
       THEN m[i].role = "user"
       ELSE /\ m[i].role = "assistant"
            /\ Return(m[i].content) =
                 generate_response(m[i-1].content, retrieve_policy_info(m[i-1].content))

\* C7: no step of a session changes the policy store, and every retrieval of
\* a session returns what retrieval on the store as loaded returns for the
\* same query, whatever turns came before it.
C7_StoreUnchanged ==
  [][/\ MOCK_POLICY_DATA' = MOCK_POLICY_DATA
     /\ MOCK_POLICY_DATA = Store
     /\ pc' = "retrieved" => context' = retrieve_loop(Store, prompt', <<>>)]_vars

\* The query of the first turn asked again in the third turn, with another
\* query in between, retrieving a record again.
C7_Witness ==
  /\ pc = "retrieved"
  /\ Len(messages) = 5
  /\ messages[1].content = prompt
  /\ messages[3].content # prompt
  /\ context # <<>>

\* C8: the transcript starts empty and only grows at its end: every step
\* leaves the earlier transcript a prefix of the later one, and a run of the
\* script without new input leaves it unchanged.
C8_AppendOnly ==
  /\ messages = <<>>
  /\ [][/\ IsPrefix(messages, messages')
        /\ "messages" \notin session_keys => messages' = <<>>
        /\ pc' \in {"replay", "waiting"} /\ pc # "generated" => messages' = messages]_vars

\* A run of the script starting on a transcript of two handled inputs.
C8_Witness ==
  /\ pc = "replay"
  /\ Len(messages) = 4
  /\ messages[1].content # messages[3].content

\* C9: a handled input adds a user turn holding the input before retrieval
\* runs and an assistant turn holding the response after it is computed; at
\* every turn boundary the transcript has even length, with user and
\* assistant turns alternating and each assistant turn answering the user
\* turn before it.
C9_TurnPairs ==
  /\ pc \in {"waiting", "replay"} =>
       /\ Len(messages) % 2 = 0
       /\ PairedUpTo(messages, Len(messages))
  /\ pc \in {"user_appended", "retrieved", "generated"} =>
       /\ Len(messages) % 2 = 1
       /\ messages[Len(messages)] = user_message(prompt)
       /\ PairedUpTo(messages, Len(messages) - 1)
  /\ pc \in {"retrieved", "generated"} => context = retrieve_policy_info(prompt)
  /\ pc = "generated" => Return(response) = generate_response(prompt, context)

\* Two handled inputs with different answers.
C9_Witness ==
  /\ pc = "waiting"
  /\ Len(messages) = 4
  /\ messages[2].content # messages[4].content
  /\ messages[4].content # APOLOGY

====
